---- MODULE Spec2Model ----
(***************************************************************************)
(* htpasswd-verify: a credential store built from "username:hash" lines,   *)
(* the classification of a hash string into one of four schemes, and the   *)
(* verification of a password against a classified entry.                  *)
(*                                                                         *)
(* Strings are sequences of one-character strings, so that slicing,        *)
(* prefix tests and splitting are computed position by position as the     *)
(* code computes them.  Bytes are the naturals 0..255.                     *)
(***************************************************************************)
EXTENDS Integers, Sequences, FiniteSets, TLC

VARIABLES text, pc, store, panicLine, calls, hashIn, pwIn, parsed, verdict, tamper

vars == <<text, pc, store, panicLine, calls, hashIn, pwIn, parsed, verdict, tamper>>

(***************************************************************************)
(* Characters and bytes.                                                   *)
(***************************************************************************)

\* The printable ASCII characters 32..126 in code order (the grave accent, 96,
\* is written "<96>").
Printable ==
  <<" ", "!", "\"", "#", "$", "%", "&", "'", "(", ")", "*", "+", ",", "-", ".", "/",
    "0", "1", "2", "3", "4", "5", "6", "7", "8", "9", ":", ";", "<", "=", ">", "?",
    "@", "A", "B", "C", "D", "E", "F", "G", "H", "I", "J", "K", "L", "M", "N", "O",
    "P", "Q", "R", "S", "T", "U", "V", "W", "X", "Y", "Z", "[", "\\", "]", "^", "_",
    "<96>", "a", "b", "c", "d", "e", "f", "g", "h", "i", "j", "k", "l", "m", "n", "o",
    "p", "q", "r", "s", "t", "u", "v", "w", "x", "y", "z", "{", "|", "}", "~">>

NL == "\n"

\* The byte of a character (str::as_bytes of ASCII text).
Ord(c) == IF c = NL THEN 10 ELSE 31 + (CHOOSE i \in 1..Len(Printable) : Printable[i] = c)

RECURSIVE Bytes(_)
Bytes(s) == IF s = <<>> THEN <<>> ELSE <<Ord(Head(s))>> \o Bytes(Tail(s))

Range(s) == {s[i] : i \in 1..Len(s)}

\* str::starts_with
StartsWith(s, p) == Len(s) >= Len(p) /\ SubSeq(s, 1, Len(p)) = p

(***************************************************************************)
(* The digest primitives the crate links against (md5, sha1, bcrypt's      *)
(* cipher, DES crypt) are stood in for by one small mixing function: a     *)
(* deterministic map from a byte string to n bytes.  Everything built on   *)
(* top of them (feeding order, rounds, encodings, comparisons) is modelled *)
(* as written.                                                             *)
(***************************************************************************)
MixMod == 65521

\* The one element of a singleton.  Only({e(x) : x \in {v}}) is e(v) with v
\* computed once, however often e reads it.
Only(S) == CHOOSE x \in S : TRUE

\* The bytes bs[lo..hi] folded into h, first to last.
RECURSIVE AbsorbRange(_, _, _, _)
AbsorbRange(h, bs, lo, hi) ==
  IF lo > hi THEN h
  ELSE IF lo = hi THEN (h * 31 + bs[lo] + 1) % MixMod
  ELSE LET mid == (lo + hi) \div 2
       IN Only({AbsorbRange(m, bs, mid + 1, hi) : m \in {AbsorbRange(h, bs, lo, mid)}})

Absorb(h0, bs) == AbsorbRange(h0, bs, 1, Len(bs))

SqueezeByte(h, i) == ((h % 256) * (2 * i + 1) + (h \div 256) + 97 * i) % 256

Squeeze16(h) ==
  <<SqueezeByte(h, 1), SqueezeByte(h, 2), SqueezeByte(h, 3), SqueezeByte(h, 4),
    SqueezeByte(h, 5), SqueezeByte(h, 6), SqueezeByte(h, 7), SqueezeByte(h, 8),
    SqueezeByte(h, 9), SqueezeByte(h, 10), SqueezeByte(h, 11), SqueezeByte(h, 12),
    SqueezeByte(h, 13), SqueezeByte(h, 14), SqueezeByte(h, 15), SqueezeByte(h, 16)>>

RECURSIVE SqueezeFrom(_, _, _)
SqueezeFrom(h, i, n) ==
  IF i > n THEN <<>> ELSE <<SqueezeByte(h, i)>> \o SqueezeFrom(h, i + 1, n)

\* md5 of a byte string: 16 bytes.
Md5(bs) == Only({Squeeze16(h) : h \in {Absorb(7, b) : b \in {bs}}})
\* sha1 of a byte string: 20 bytes.
Sha1(bs) == SqueezeFrom(Absorb(11, bs), 1, 20)
\* the 23 bytes bcrypt keeps of its cipher output, for a cost and a 16-byte salt.
BcryptCore(pw, cost, salt) == SqueezeFrom(Absorb(13 + cost, salt \o pw), 1, 23)
\* the 8 bytes of DES crypt, for a 2-character salt.
DesCore(pw, salt) == SqueezeFrom(Absorb(17, salt \o pw), 1, 8)

(***************************************************************************)
(* md5.rs: the APR1 digest.                                                *)
(***************************************************************************)
APR1_ID == <<"$", "a", "p", "r", "1", "$">>

\* The crypt alphabet ./0-9A-Za-z.
Itoa64 ==
  <<".", "/", "0", "1", "2", "3", "4", "5", "6", "7", "8", "9",
    "A", "B", "C", "D", "E", "F", "G", "H", "I", "J", "K", "L", "M",
    "N", "O", "P", "Q", "R", "S", "T", "U", "V", "W", "X", "Y", "Z",
    "a", "b", "c", "d", "e", "f", "g", "h", "i", "j", "k", "l", "m",
    "n", "o", "p", "q", "r", "s", "t", "u", "v", "w", "x", "y", "z">>

\* n symbols of v, least significant 6 bits first.
RECURSIVE to64(_, _)
to64(v, n) == IF n = 0 THEN <<>> ELSE <<Itoa64[(v % 64) + 1]>> \o to64(v \div 64, n - 1)

Rounds == 1000

\* Step 3: the first min(remaining, 16) bytes of D0, remaining = len(password), -16 each time.
RECURSIVE FeedD0(_, _)
FeedD0(d0, remaining) ==
  IF remaining <= 0 THEN <<>>
  ELSE SubSeq(d0, 1, IF remaining < 16 THEN remaining ELSE 16) \o FeedD0(d0, remaining - 16)

\* Step 4: for i = len(password); i != 0; i >>= 1: a null byte if the low bit is set,
\* else the first byte of the password.
RECURSIVE FeedBits(_, _)
FeedBits(pw, i) ==
  IF i = 0 THEN <<>>
  ELSE <<IF i % 2 = 1 THEN 0 ELSE pw[1]>> \o FeedBits(pw, i \div 2)

\* Step 6: one round.
Apr1Round(ctx, pw, salt, r) ==
  Md5((IF r % 2 = 1 THEN pw ELSE ctx)
      \o (IF r % 3 # 0 THEN salt ELSE <<>>)
      \o (IF r % 7 # 0 THEN pw ELSE <<>>)
      \o (IF r % 2 = 1 THEN ctx ELSE pw))

\* Rounds lo..hi applied in order, each to the output of the one before.
RECURSIVE Apr1Rounds(_, _, _, _, _)
Apr1Rounds(ctx, pw, salt, lo, hi) ==
  IF lo > hi THEN ctx
  ELSE IF lo = hi THEN Apr1Round(ctx, pw, salt, lo)
  ELSE LET mid == (lo + hi) \div 2
       IN Only({Apr1Rounds(c, pw, salt, mid + 1, hi) : c \in {Apr1Rounds(ctx, pw, salt, lo, mid)}})

\* Step 7: the permuted triples, then the last byte alone (indices are 0-based in the text).
Apr1Encode64(f) ==
  to64(f[1] * 65536 + f[7] * 256 + f[13], 4)
  \o to64(f[2] * 65536 + f[8] * 256 + f[14], 4)
  \o to64(f[3] * 65536 + f[9] * 256 + f[15], 4)
  \o to64(f[4] * 65536 + f[10] * 256 + f[16], 4)
  \o to64(f[5] * 65536 + f[11] * 256 + f[6], 4)
  \o to64(f[12], 2)

\* Steps 1 to 5: the context the rounds start from.
Apr1Seed(pw, sl) ==
  Md5(pw \o Bytes(APR1_ID) \o sl \o FeedD0(Md5(pw \o sl \o pw), Len(pw)) \o FeedBits(pw, Len(pw)))

\* Steps 6 and 7 on that context.
Apr1Finish(pw, sl) ==
  Only({Apr1Encode64(f) :
        f \in {Apr1Rounds(ctx0, pw, sl, 0, Rounds - 1) : ctx0 \in {Apr1Seed(pw, sl)}}})

Apr1Digest(password, salt) ==
  Only({Apr1Finish(pw, sl) : pw \in {Bytes(password)}, sl \in {Bytes(salt)}})

(***************************************************************************)
(* The passwords and salts the inputs are drawn from.  md5_apr1_encode is   *)
(* the digest above; for the pairs met most often it is computed once.     *)
(***************************************************************************)
P1 == <<"p", "w">>
P2 == <<"q">>
PLong == <<"a", "a", "a", "a", "a", "a", "a", "a", "a", "a", "a", "a", "a", "a", "a", "a", "a">>
Passwords == {P1, P2}
RoundTripPasswords == {P1, P2, <<>>, PLong}

S1 == <<"l", "Z", "L", "6", "V", "/", "c", "i">>
S2 == <<"a", "b", "$", "c", ":", "e", "f", "g">>
Salts8 == {S1, S2}
ShortSalt == <<"a", "b", "c">>

Apr1Known ==
  (RoundTripPasswords \X Salts8) \cup {<<P1, ShortSalt>>}
  \cup (Passwords \X {ShortSalt \o <<"$">> \o SubSeq(Apr1Digest(P1, ShortSalt), 1, 4)})

Apr1Table == {<<x, Apr1Digest(x[1], x[2])>> : x \in Apr1Known}

md5_apr1_encode(password, salt) ==
  IF <<password, salt>> \in Apr1Known
  THEN (CHOOSE e \in Apr1Table : e[1] = <<password, salt>>)[2]
  ELSE Apr1Digest(password, salt)

format_hash(encoded, salt) == APR1_ID \o salt \o <<"$">> \o encoded


(***************************************************************************)
(* The delegated primitives: base64, bcrypt::verify, unix_crypt::verify.   *)
(***************************************************************************)
\* The standard alphabet A-Za-z0-9+/.
StdB64 ==
  <<"A", "B", "C", "D", "E", "F", "G", "H", "I", "J", "K", "L", "M",
    "N", "O", "P", "Q", "R", "S", "T", "U", "V", "W", "X", "Y", "Z",
    "a", "b", "c", "d", "e", "f", "g", "h", "i", "j", "k", "l", "m",
    "n", "o", "p", "q", "r", "s", "t", "u", "v", "w", "x", "y", "z",
    "0", "1", "2", "3", "4", "5", "6", "7", "8", "9", "+", "/">>

\* bcrypt's alphabet ./A-Za-z0-9.
BcryptB64 ==
  <<".", "/",
    "A", "B", "C", "D", "E", "F", "G", "H", "I", "J", "K", "L", "M",
    "N", "O", "P", "Q", "R", "S", "T", "U", "V", "W", "X", "Y", "Z",
    "a", "b", "c", "d", "e", "f", "g", "h", "i", "j", "k", "l", "m",
    "n", "o", "p", "q", "r", "s", "t", "u", "v", "w", "x", "y", "z",
    "0", "1", "2", "3", "4", "5", "6", "7", "8", "9">>

Digits == <<"0", "1", "2", "3", "4", "5", "6", "7", "8", "9">>

IndexIn(alphabet, c) == CHOOSE i \in 1..Len(alphabet) : alphabet[i] = c

\* Base64 of bs[i..] over an alphabet, most significant 6 bits first; pad is <<"=">>
\* or <<>>.
RECURSIVE B64From(_, _, _, _)
B64From(bs, i, alphabet, pad) ==
  LET left == Len(bs) - i + 1
  IN IF left <= 0 THEN <<>>
     ELSE IF left = 1 THEN
       <<alphabet[(bs[i] \div 4) + 1], alphabet[((bs[i] % 4) * 16) + 1]>> \o pad \o pad
     ELSE IF left = 2 THEN
       <<alphabet[(bs[i] \div 4) + 1],
         alphabet[((bs[i] % 4) * 16 + (bs[i + 1] \div 16)) + 1],
         alphabet[((bs[i + 1] % 16) * 4) + 1]>> \o pad
     ELSE
       <<alphabet[(bs[i] \div 4) + 1],
         alphabet[((bs[i] % 4) * 16 + (bs[i + 1] \div 16)) + 1],
         alphabet[((bs[i + 1] % 16) * 4 + (bs[i + 2] \div 64)) + 1],
         alphabet[(bs[i + 2] % 64) + 1]>> \o B64From(bs, i + 3, alphabet, pad)

\* base64::encode
base64_encode(bs) == B64From(bs, 1, StdB64, <<"=">>)

\* Whether a string decodes over bcrypt's alphabet: every character is of the
\* alphabet and the last one carries no bits beyond the bytes it encodes
\* (unusedBits of them).
BcryptDecodes(s, unusedBits) ==
  /\ Range(s) \subseteq Range(BcryptB64)
  /\ s # <<>> => (IndexIn(BcryptB64, s[Len(s)]) - 1) % unusedBits = 0

\* bcrypt::verify(password, hash): "$2y$", a two-digit cost, "$", 22 characters of
\* salt and 31 of digest.  Ok(b) or Err.
bcrypt_verify(password, hash) ==
  IF \/ Len(hash) # 60
     \/ ~StartsWith(hash, <<"$", "2", "y", "$">>)
     \/ ~(hash[5] \in Range(Digits) /\ hash[6] \in Range(Digits))
     \/ hash[7] # "$"
     \/ ~BcryptDecodes(SubSeq(hash, 8, 29), 16)
     \/ ~BcryptDecodes(SubSeq(hash, 30, 60), 4)
  THEN [kind |-> "Err", val |-> FALSE]
  ELSE LET cost == (IndexIn(Digits, hash[5]) - 1) * 10 + (IndexIn(Digits, hash[6]) - 1)
           generated == B64From(BcryptCore(Bytes(password), cost, Bytes(SubSeq(hash, 8, 29))),
                                1, BcryptB64, <<>>)
       IN IF cost < 4 \/ cost > 31 THEN [kind |-> "Err", val |-> FALSE]
          ELSE [kind |-> "Ok", val |-> (SubSeq(hash, 30, 60) = generated)]

\* pwhash::unix_crypt::verify(password, hash): the hash recomputed with the two
\* salt characters of hash and compared with it; false when hash holds no salt.
unix_crypt_verify(password, hash) ==
  /\ Len(hash) >= 2
  /\ Range(SubSeq(hash, 1, 2)) \subseteq Range(Itoa64)
  /\ hash = SubSeq(hash, 1, 2)
            \o B64From(DesCore(Bytes(password), Bytes(SubSeq(hash, 1, 2))), 1, Itoa64, <<>>)

(***************************************************************************)
(* lib.rs                                                                  *)
(***************************************************************************)
BCRYPT_ID == <<"$", "2", "y", "$">>
SHA1_ID == <<"{", "S", "H", "A", "}">>

\* A Hash value: the variant and its fields (salt is empty but for MD5).
MkHash(variant, salt, hash) == [variant |-> variant, salt |-> salt, hash |-> hash]
NoHash == MkHash("None", <<>>, <<>>)

\* &s[from..to] and &s[from..] with 0-based, end-exclusive bounds: the slice, or a
\* panic when a bound lies beyond the end of s.
SliceOk(s, from, to) == from <= to /\ to <= Len(s)
Slice(s, from, to) == SubSeq(s, from + 1, to)

ParsedOk(h) == [kind |-> "Ok", hash |-> h]
ParsePanic == [kind |-> "Panic", hash |-> NoHash]

\* Hash::parse with the salt taken one character early.
HashParse_saltShifted(hash) ==
  IF StartsWith(hash, APR1_ID) THEN
    IF ~SliceOk(hash, Len(APR1_ID) - 1, Len(APR1_ID) + 7) THEN ParsePanic
    ELSE IF ~SliceOk(hash, Len(APR1_ID) + 8 + 1, Len(hash)) THEN ParsePanic
    ELSE ParsedOk(MkHash("MD5", Slice(hash, Len(APR1_ID) - 1, Len(APR1_ID) + 7),
                         Slice(hash, Len(APR1_ID) + 8 + 1, Len(hash))))
  ELSE IF StartsWith(hash, BCRYPT_ID) THEN ParsedOk(MkHash("BCrypt", <<>>, hash))
  ELSE IF StartsWith(hash, SHA1_ID) THEN
    ParsedOk(MkHash("SHA1", <<>>, Slice(hash, Len(SHA1_ID), Len(hash))))
  ELSE ParsedOk(MkHash("Crypt", <<>>, hash))

\* Hash::parse with the digest starting at the character after the salt, the
\* separator not skipped.
HashParse_noSkip(hash) ==
  IF StartsWith(hash, APR1_ID) THEN
    IF ~SliceOk(hash, Len(APR1_ID), Len(APR1_ID) + 8) THEN ParsePanic
    ELSE ParsedOk(MkHash("MD5", Slice(hash, Len(APR1_ID), Len(APR1_ID) + 8),
                         Slice(hash, Len(APR1_ID) + 8, Len(hash))))
  ELSE IF StartsWith(hash, BCRYPT_ID) THEN ParsedOk(MkHash("BCrypt", <<>>, hash))
  ELSE IF StartsWith(hash, SHA1_ID) THEN
    ParsedOk(MkHash("SHA1", <<>>, Slice(hash, Len(SHA1_ID), Len(hash))))
  ELSE ParsedOk(MkHash("Crypt", <<>>, hash))

\* Hash::parse
HashParse(hash) ==
  IF StartsWith(hash, APR1_ID) THEN
    IF ~SliceOk(hash, Len(APR1_ID), Len(APR1_ID) + 8) THEN ParsePanic
    ELSE IF ~SliceOk(hash, Len(APR1_ID) + 8 + 1, Len(hash)) THEN ParsePanic
    ELSE ParsedOk(MkHash("MD5", Slice(hash, Len(APR1_ID), Len(APR1_ID) + 8),
                         Slice(hash, Len(APR1_ID) + 8 + 1, Len(hash))))
  ELSE IF StartsWith(hash, BCRYPT_ID) THEN ParsedOk(MkHash("BCrypt", <<>>, hash))
  ELSE IF StartsWith(hash, SHA1_ID) THEN
    ParsedOk(MkHash("SHA1", <<>>, Slice(hash, Len(SHA1_ID), Len(hash))))
  ELSE ParsedOk(MkHash("Crypt", <<>>, hash))

\* What a call returns: Ok(b), or a panic carrying the error unwrapped.
Returned(b) == [kind |-> "Ok", val |-> b, err |-> "none"]
Panicked(e) == [kind |-> "Panic", val |-> FALSE, err |-> e]

\* Result::unwrap of bcrypt's result.
Unwrap(r) == IF r.kind = "Ok" THEN Returned(r.val) ELSE Panicked("BcryptError")

\* Hash::check with unwrap_or(false) in place of unwrap.
HashCheck_unwrapOrFalse(h, password) ==
  IF h.variant = "MD5" THEN Returned(md5_apr1_encode(password, h.salt) = h.hash)
  ELSE IF h.variant = "BCrypt" THEN
    LET r == bcrypt_verify(password, h.hash)
    IN Returned(IF r.kind = "Ok" THEN r.val ELSE FALSE)
  ELSE IF h.variant = "SHA1" THEN Returned(base64_encode(Sha1(Bytes(password))) = h.hash)
  ELSE Returned(unix_crypt_verify(password, h.hash))

\* Hash::check with the MD5 digests compared without their last character.
HashCheck_dropLast(h, password) ==
  IF h.variant = "MD5" THEN
    LET e == md5_apr1_encode(password, h.salt)
    IN Returned(Len(e) = Len(h.hash) /\ SubSeq(e, 1, Len(e) - 1) = SubSeq(h.hash, 1, Len(e) - 1))
  ELSE IF h.variant = "BCrypt" THEN Unwrap(bcrypt_verify(password, h.hash))
  ELSE IF h.variant = "SHA1" THEN Returned(base64_encode(Sha1(Bytes(password))) = h.hash)
  ELSE Returned(unix_crypt_verify(password, h.hash))

\* Hash::check
HashCheck(h, password) ==
  IF h.variant = "MD5" THEN Returned(md5_apr1_encode(password, h.salt) = h.hash)
  ELSE IF h.variant = "BCrypt" THEN Unwrap(bcrypt_verify(password, h.hash))
  ELSE IF h.variant = "SHA1" THEN Returned(base64_encode(Sha1(Bytes(password))) = h.hash)
  ELSE Returned(unix_crypt_verify(password, h.hash))

\* The HashMap: a function from its keys.
EmptyMap == [k \in {} |-> NoHash]
Insert(m, k, v) == [x \in (DOMAIN m) \cup {k} |-> IF x = k THEN v ELSE m[x]]

\* HashMap::get
Found(h) == [some |-> TRUE, hash |-> h]
NotFound == [some |-> FALSE, hash |-> NoHash]
Get(m, k) == IF k \in DOMAIN m THEN Found(m[k]) ELSE NotFound

\* The map after a lookup that takes the entry out (remove in place of get).
MapAfterGet_remove(m, k) == [x \in (DOMAIN m) \ {k} |-> m[x]]
\* The map after HashMap::get(&self): a shared borrow, nothing written.
MapAfterGet(m, k) == m

\* .map(|hash| hash.check(password)).unwrap_or_default(), with true for None.
MapCheck_defaultTrue(found, password) ==
  IF found.some THEN HashCheck(found.hash, password) ELSE Returned(TRUE)
\* .map(|hash| hash.check(password)).unwrap_or_default()
MapCheck(found, password) ==
  IF found.some THEN HashCheck(found.hash, password) ELSE Returned(FALSE)

\* Htpasswd::check
Htpasswd_check(m, username, password) == MapCheck(Get(m, username), password)

\* str::find(c): the 1-based index of the first c from i on, 0 for None.
RECURSIVE FindFrom(_, _, _)
FindFrom(s, c, i) ==
  IF i > Len(s) THEN 0 ELSE IF s[i] = c THEN i ELSE FindFrom(s, c, i + 1)
Find(s, c) == FindFrom(s, c, 1)

\* str::split(c): the pieces between the separators, one more than there are
\* separators.
RECURSIVE Split(_, _)
Split(s, c) ==
  LET i == Find(s, c)
  IN IF i = 0 THEN <<s>> ELSE <<SubSeq(s, 1, i - 1)>> \o Split(SubSeq(s, i + 1, Len(s)), c)

NoEntry == [kind |-> "None", user |-> <<>>, hash |-> NoHash]

\* parse_hash_entry with a line that has no ':' taken as a username with an
\* empty hash.
parse_hash_entry_keepAll(entry) ==
  LET semicolon == Find(entry, ":")
  IN IF semicolon = 0 THEN [kind |-> "Some", user |-> entry, hash |-> HashParse(<<>>).hash]
     ELSE LET p == HashParse(SubSeq(entry, semicolon + 1, Len(entry)))
          IN IF p.kind = "Panic" THEN [kind |-> "Panic", user |-> <<>>, hash |-> NoHash]
             ELSE [kind |-> "Some", user |-> SubSeq(entry, 1, semicolon - 1), hash |-> p.hash]

\* parse_hash_entry: None, Some((username, hash)), or the panic of Hash::parse.
parse_hash_entry(entry) ==
  LET semicolon == Find(entry, ":")
  IN IF semicolon = 0 THEN NoEntry
     ELSE LET p == HashParse(SubSeq(entry, semicolon + 1, Len(entry)))
          IN IF p.kind = "Panic" THEN [kind |-> "Panic", user |-> <<>>, hash |-> NoHash]
             ELSE [kind |-> "Some", user |-> SubSeq(entry, 1, semicolon - 1), hash |-> p.hash]

\* Collecting with the first entry of a username kept.
Collect_firstWins(m, e) == IF e.user \in DOMAIN m THEN m ELSE Insert(m, e.user, e.hash)
\* collect::<HashMap>: each pair inserted in turn.
Collect(m, e) == Insert(m, e.user, e.hash)

\* filter_map(parse_hash_entry).collect() over lines[i..]: the map, or the line
\* whose parsing panicked.
RECURSIVE LoadFrom(_, _, _)
LoadFrom(lines, i, m) ==
  IF i > Len(lines) THEN [kind |-> "Ok", map |-> m, at |-> 0]
  ELSE LET e == parse_hash_entry(lines[i])
       IN IF e.kind = "Panic" THEN [kind |-> "Panic", map |-> EmptyMap, at |-> i]
          ELSE IF e.kind = "None" THEN LoadFrom(lines, i + 1, m)
          ELSE LoadFrom(lines, i + 1, Collect(m, e))

\* load
load(bytes) == LoadFrom(Split(bytes, NL), 1, EmptyMap)

(***************************************************************************)
(* Hash strings and lines.                                                 *)
(***************************************************************************)
BcryptSalt == <<"n", "C", "6", "n", "E", "r", "r", "9", "X", "Z", "J", "u", "M", "J", "5", "7", "W", "y", "C", "o", "b", ".">>
Apr1Of(p, s) == format_hash(md5_apr1_encode(p, s), s)
BcryptOf(p) ==
  BCRYPT_ID \o <<"0", "5", "$">> \o BcryptSalt
  \o B64From(BcryptCore(Bytes(p), 5, Bytes(BcryptSalt)), 1, BcryptB64, <<>>)
Sha1Of(p) == SHA1_ID \o base64_encode(Sha1(Bytes(p)))
CryptOf(p) == <<"b", "G">> \o B64From(DesCore(Bytes(p), Bytes(<<"b", "G">>)), 1, Itoa64, <<>>)

\* An APR1 entry whose salt has 3 characters.
Apr1ShortSalt == format_hash(md5_apr1_encode(P1, ShortSalt), ShortSalt)

Prefixes(s) == {SubSeq(s, 1, n) : n \in 0..Len(s)}

\* The hash strings Hash::parse is applied to: the well-formed ones of each scheme,
\* their truncations, and strings of no scheme.
HashStrings ==
  UNION {Prefixes(Apr1Of(P1, s)) : s \in Salts8}
  \cup Prefixes(Apr1ShortSalt)
  \cup Prefixes(BcryptOf(P1)) \cup Prefixes(Sha1Of(P1)) \cup Prefixes(CryptOf(P1))
  \cup {Apr1Of(p, s) : p \in RoundTripPasswords, s \in Salts8}
  \cup {<<"p", "l", "a", "i", "n">>, <<" ", "$", "a", "p", "r", "1", "$">>,
        <<"$", "2", "a", "$", "0", "5", "$">>, <<"{", "s", "h", "a", "}", "x">>}

U == <<"u">>
V == <<"v">>
W == <<"w">>
Users == {U, V, W}

Line(user, hash) == user \o <<":">> \o hash

\* The lines a text is made of.
Lines ==
  << <<>>,
     <<"j", "u", "n", "k">>,
     Line(U, Apr1Of(P1, S1)),
     Line(U, BcryptOf(P1)),
     Line(V, Sha1Of(P1)),
     Line(V, CryptOf(P2)),
     Line(U, <<"$", "2", "y", "$", "b", ":", "d">>),
     Line(V, <<"$", "a", "p", "r", "1", "$", "s", "h", "o", "r", "t">>) >>

MaxLines == 2

RECURSIVE Join(_)
Join(ls) ==
  IF ls = <<>> THEN <<>>
  ELSE IF Len(ls) = 1 THEN ls[1] ELSE ls[1] \o <<NL>> \o Join(Tail(ls))

RECURSIVE Picks(_)
Picks(n) == IF n = 0 THEN {<<>>} ELSE {<<i>> \o r : i \in 1..Len(Lines), r \in Picks(n - 1)}

Texts == {Join([i \in 1..Len(pick) |-> Lines[pick[i]]]) : pick \in UNION {Picks(n) : n \in 0..MaxLines}}

Threads == {"t1", "t2"}

Idle == [st |-> "idle", user |-> <<>>, pw |-> <<>>, found |-> NotFound, result |-> Returned(FALSE)]
NoTamper == [on |-> FALSE, user |-> <<>>, pw |-> <<>>, variant |-> "None", pos |-> 0]
NoParse == [kind |-> "None", hash |-> NoHash]
NoVerdict == [kind |-> "None", val |-> FALSE, err |-> "none"]

(***************************************************************************)
(* The store: load, then check from any thread.                            *)
(***************************************************************************)
Init ==
  /\ text \in Texts
  /\ pc = "start"
  /\ store = EmptyMap
  /\ panicLine = 0
  /\ calls = [t \in Threads |-> Idle]
  /\ hashIn = <<>> /\ pwIn = <<>> /\ parsed = NoParse /\ verdict = NoVerdict
  /\ tamper = NoTamper

\* load(text): the store, or the panic of the line that could not be parsed.
Load ==
  /\ pc = "start"
  /\ LET r == load(text)
     IN /\ pc' = IF r.kind = "Ok" THEN "loaded" ELSE "panicked"
        /\ store' = r.map
        /\ panicLine' = r.at
  /\ UNCHANGED <<text, calls, hashIn, pwIn, parsed, verdict, tamper>>

\* Htpasswd::check, first half: self.0.get(username).
CheckGet(t, username, password) ==
  /\ pc = "loaded"
  /\ calls[t].st # "found"
  /\ calls' = [calls EXCEPT ![t] = [st |-> "found", user |-> username, pw |-> password,
                                    found |-> Get(store, username),
                                    result |-> Returned(FALSE)]]
  /\ store' = MapAfterGet(store, username)
  /\ UNCHANGED <<text, pc, panicLine, hashIn, pwIn, parsed, verdict, tamper>>

\* Htpasswd::check, second half: .map(|hash| hash.check(password)).unwrap_or_default().
CheckReturn(t) ==
  /\ pc = "loaded"
  /\ calls[t].st = "found"
  /\ calls' = [calls EXCEPT ![t].st = "done",
                            ![t].result = MapCheck(calls[t].found, calls[t].pw)]
  /\ UNCHANGED <<text, pc, store, panicLine, hashIn, pwIn, parsed, verdict, tamper>>

Next ==
  \/ Load
  \/ \E t \in Threads, u \in Users, p \in Passwords : CheckGet(t, u, p)
  \/ \E t \in Threads : CheckReturn(t)

Spec == Init /\ [][Next]_vars

(***************************************************************************)
(* Hash::parse and Hash::check as functions of their inputs.               *)
(***************************************************************************)
InitParse ==
  /\ hashIn \in HashStrings
  /\ pwIn \in RoundTripPasswords
  /\ pc = "input"
  /\ parsed = NoParse /\ verdict = NoVerdict
  /\ text = <<>> /\ store = EmptyMap /\ panicLine = 0
  /\ calls = [t \in Threads |-> Idle] /\ tamper = NoTamper

\* Hash::parse(hashIn)
ParseStep ==
  /\ pc = "input"
  /\ parsed' = HashParse(hashIn)
  /\ pc' = "parsed"
  /\ UNCHANGED <<text, store, panicLine, calls, hashIn, pwIn, verdict, tamper>>

\* hash.check(pwIn) on the value parsed
CheckStep ==
  /\ pc = "parsed"
  /\ parsed.kind = "Ok"
  /\ verdict' = HashCheck(parsed.hash, pwIn)
  /\ pc' = "checked"
  /\ UNCHANGED <<text, store, panicLine, calls, hashIn, pwIn, parsed, tamper>>

NextParse == ParseStep \/ CheckStep

SpecParse == InitParse /\ [][NextParse]_vars

(***************************************************************************)
(* A stored digest changed in one character, and the file loaded again.    *)
(***************************************************************************)
TamperChars == {".", "!", "B", NL}

\* Where the digest starts in the hash string of each scheme (1-based): after
\* marker, salt and separator (MD5), after the prefix, cost and 22 characters of
\* salt (BCrypt), after the marker (SHA1), after the 2 characters of salt (Crypt).
DigestStart(variant) ==
  IF variant = "MD5" THEN Len(APR1_ID) + 8 + 2
  ELSE IF variant = "BCrypt" THEN 30
  ELSE IF variant = "SHA1" THEN Len(SHA1_ID) + 1
  ELSE 3

InitTamper ==
  /\ text \in {Line(U, Apr1Of(P1, S1)), Line(U, BcryptOf(P1)),
               Line(V, Sha1Of(P1)), Line(V, CryptOf(P2))}
  /\ pc = "start"
  /\ store = EmptyMap
  /\ panicLine = 0
  /\ calls = [t \in Threads |-> Idle]
  /\ hashIn = <<>> /\ pwIn = <<>> /\ parsed = NoParse /\ verdict = NoVerdict
  /\ tamper = NoTamper

\* After check(user, pw) has returned true: character i of the user's stored
\* digest replaced by c, the store dropped, to be loaded again from the new text.
Tamper(t, i, c) ==
  /\ pc = "loaded"
  /\ ~tamper.on
  /\ NL \notin Range(text)
  /\ calls[t].st = "done"
  /\ calls[t].result = Returned(TRUE)
  /\ i >= Len(calls[t].user) + 1 + DigestStart(calls[t].found.hash.variant)
  /\ c # text[i]
  /\ text' = [text EXCEPT ![i] = c]
  /\ tamper' = [on |-> TRUE, user |-> calls[t].user, pw |-> calls[t].pw,
                variant |-> calls[t].found.hash.variant, pos |-> i]
  /\ pc' = "start"
  /\ store' = EmptyMap
  /\ calls' = [x \in Threads |-> Idle]
  /\ UNCHANGED <<panicLine, hashIn, pwIn, parsed, verdict>>

NextTamper ==
  \/ Load
  \/ \E t \in Threads, u \in Users, p \in Passwords : CheckGet(t, u, p)
  \/ \E t \in Threads : CheckReturn(t)
  \/ \E t \in Threads, i \in 1..Len(text), c \in TamperChars : Tamper(t, i, c)

SpecTamper == InitTamper /\ [][NextTamper]_vars

(***************************************************************************)
(* The text as the claims read it: its lines, and the username and hash    *)
(* string of a line, stated from the file format.                          *)
(***************************************************************************)
\* The positions at which the lines of t start (one past its end for a last,
\* empty line).
LineStarts(t) == {1} \cup {i + 1 : i \in {j \in 1..Len(t) : t[j] = NL}}

\* The line of t that starts at a.
LineAt(t, a) ==
  LET ends == {i \in a..Len(t) : t[i] = NL /\ \A j \in a..(i - 1) : t[j] # NL}
  IN SubSeq(t, a, IF ends = {} THEN Len(t) ELSE (CHOOSE i \in ends : TRUE) - 1)

\* The start of the k-th line of t.
NthStart(t, k) == CHOOSE a \in LineStarts(t) : Cardinality({b \in LineStarts(t) : b < a}) = k - 1

HasColon(l) == ":" \in Range(l)
FirstColon(l) == CHOOSE i \in 1..Len(l) : l[i] = ":" /\ \A j \in 1..(i - 1) : l[j] # ":"
NameOf(l) == SubSeq(l, 1, FirstColon(l) - 1)
HashOf(l) == SubSeq(l, FirstColon(l) + 1, Len(l))

\* The starts of the lines of t that contain a ':'.
EntryStarts(t) == {a \in LineStarts(t) : HasColon(LineAt(t, a))}

Done(t) == calls[t].st = "done"

(***************************************************************************)
(* C1                                                                      *)
(***************************************************************************)
\* C1: for a store that load produced, check of a username that is not a key of
\* the store returns false, whatever the password, and does not panic.
C1Theorem ==
  pc = "loaded" =>
    \A t \in Threads :
      (Done(t) /\ calls[t].user \notin DOMAIN store) => calls[t].result = Returned(FALSE)

C1Witness ==
  /\ pc = "loaded"
  /\ DOMAIN store # {}
  /\ \E t \in Threads : Done(t) /\ calls[t].user \notin DOMAIN store

(***************************************************************************)
(* C2                                                                      *)
(***************************************************************************)
\* C2: load does not crash on a blank line or on a line without ':' (a load that
\* panics panics on a line that has a ':'), and the keys of the store are exactly
\* the usernames of the lines that have a ':'.
C2Theorem ==
  /\ pc = "loaded" => DOMAIN store = {NameOf(LineAt(text, a)) : a \in EntryStarts(text)}
  /\ pc = "panicked" =>
       /\ panicLine \in 1..Cardinality(LineStarts(text))
       /\ HasColon(LineAt(text, NthStart(text, panicLine)))

C2Witness ==
  /\ pc = "loaded"
  /\ DOMAIN store # {}
  /\ \E a \in LineStarts(text) : ~HasColon(LineAt(text, a))

(***************************************************************************)
(* C3                                                                      *)
(***************************************************************************)
\* C3: the store maps a username to the hash parsed from the last line, in line
\* order, that carries that username.
C3Theorem ==
  pc = "loaded" =>
    \A a \in EntryStarts(text) :
      (\A b \in EntryStarts(text) : b > a => NameOf(LineAt(text, b)) # NameOf(LineAt(text, a)))
      => /\ NameOf(LineAt(text, a)) \in DOMAIN store
         /\ ParsedOk(store[NameOf(LineAt(text, a))]) = HashParse(HashOf(LineAt(text, a)))

C3Witness ==
  /\ pc = "loaded"
  /\ \E a, b \in EntryStarts(text) :
       /\ a < b
       /\ NameOf(LineAt(text, a)) = NameOf(LineAt(text, b))
       /\ HashOf(LineAt(text, a)) # HashOf(LineAt(text, b))
       /\ store[NameOf(LineAt(text, b))].variant # HashParse(HashOf(LineAt(text, a))).hash.variant

(***************************************************************************)
(* C4                                                                      *)
(***************************************************************************)
\* C4: Hash::parse returns exactly one variant for every hash string, by prefix
\* alone: MD5 for the APR1 marker, else BCrypt for "$2y$", else SHA1 for "{SHA}",
\* else Crypt carrying the whole string.
C4Claim ==
  pc \in {"parsed", "checked"} =>
    /\ parsed.kind = "Ok"
    /\ IF StartsWith(hashIn, <<"$", "a", "p", "r", "1", "$">>) THEN parsed.hash.variant = "MD5"
       ELSE IF StartsWith(hashIn, <<"$", "2", "y", "$">>) THEN parsed.hash = MkHash("BCrypt", <<>>, hashIn)
       ELSE IF StartsWith(hashIn, <<"{", "S", "H", "A", "}">>) THEN parsed.hash.variant = "SHA1"
       ELSE parsed.hash = MkHash("Crypt", <<>>, hashIn)

(***************************************************************************)
(* C5                                                                      *)
(***************************************************************************)
\* C5: for a password p and an 8-character salt s, the string
\* format_hash(md5_apr1_encode(p, s), s) parses to the MD5 variant with salt s and
\* digest md5_apr1_encode(p, s), and check(p) on it returns true.
C5Theorem ==
  \A s \in Salts8 :
    (pc \in {"parsed", "checked"} /\ hashIn = format_hash(md5_apr1_encode(pwIn, s), s))
    => /\ parsed = ParsedOk(MkHash("MD5", s, md5_apr1_encode(pwIn, s)))
       /\ pc = "checked" => verdict = Returned(TRUE)

C5Witness ==
  /\ pc = "checked"
  /\ pwIn = PLong
  /\ hashIn = format_hash(md5_apr1_encode(pwIn, S2), S2)
  /\ verdict = Returned(TRUE)

(***************************************************************************)
(* C6                                                                      *)
(***************************************************************************)
\* C6: a hash string that starts with the APR1 marker and is too short to hold
\* the 8-character salt and the separator makes Hash::parse fail with a
\* MalformedHash error, not with a panic.
C6Claim ==
  (pc = "parsed" /\ StartsWith(hashIn, <<"$", "a", "p", "r", "1", "$">>) /\ Len(hashIn) < 15)
  => parsed.kind = "MalformedHash"

(***************************************************************************)
(* C7                                                                      *)
(***************************************************************************)
\* C7: when bcrypt's verify cannot parse the stored string of a BCrypt entry, the
\* check of a password against the entry ends with the error of the primitive,
\* an outcome that is neither false nor true.
C7Theorem ==
  \A t \in Threads :
    (/\ Done(t)
     /\ calls[t].found.some
     /\ calls[t].found.hash.variant = "BCrypt"
     /\ bcrypt_verify(calls[t].pw, calls[t].found.hash.hash).kind = "Err")
    => /\ calls[t].result.kind = "Panic"
       /\ calls[t].result.err = "BcryptError"
       /\ calls[t].result \notin {Returned(FALSE), Returned(TRUE)}

C7Witness ==
  \E t \in Threads :
    /\ Done(t)
    /\ calls[t].found.some
    /\ calls[t].found.hash = MkHash("BCrypt", <<>>, <<"$", "2", "y", "$", "b", ":", "d">>)
    /\ calls[t].result.kind = "Panic"

(***************************************************************************)
(* C8                                                                      *)
(***************************************************************************)
\* C8 as claimed: after one character of the stored digest of an entry is replaced
\* by another and the text is loaded again, check of the user with the password
\* that verified before returns false.
C8Claim ==
  (tamper.on /\ pc = "loaded") =>
    \A t \in Threads :
      (Done(t) /\ calls[t].user = tamper.user /\ calls[t].pw = tamper.pw)
      => calls[t].result = Returned(FALSE)

\* C8 as amended: the check never returns true again; it returns false, or, for a
\* BCrypt entry whose changed string bcrypt cannot parse, panics with bcrypt's
\* error.  Loading the changed text does not panic.
C8Theorem ==
  tamper.on =>
    /\ pc # "panicked"
    /\ pc = "loaded" =>
         \A t \in Threads :
           (Done(t) /\ calls[t].user = tamper.user /\ calls[t].pw = tamper.pw)
           => \/ calls[t].result = Returned(FALSE)
              \/ /\ tamper.variant = "BCrypt"
                 /\ calls[t].result = Panicked("BcryptError")

C8Witness ==
  /\ tamper.on
  /\ tamper.variant = "MD5"
  /\ tamper.pos = Len(text)
  /\ pc = "loaded"
  /\ \E t \in Threads :
       Done(t) /\ calls[t].user = tamper.user /\ calls[t].pw = tamper.pw
       /\ calls[t].result = Returned(FALSE)

(***************************************************************************)
(* C9                                                                      *)
(***************************************************************************)
\* C9: once loaded, no step of any check, from any thread and in any
\* interleaving, changes the store, and every check that has returned has the
\* result that check of its username and password has on the store.
C9Theorem ==
  [][pc = "loaded" =>
       /\ store' = store
       /\ \A t \in Threads :
            calls'[t].st = "done" =>
              calls'[t].result = Htpasswd_check(store', calls'[t].user, calls'[t].pw)]_vars

C9Witness ==
  /\ pc = "loaded"
  /\ calls["t1"].st = "found"
  /\ Done("t2")
  /\ calls["t1"].user = calls["t2"].user
  /\ calls["t1"].user \in DOMAIN store
  /\ calls["t2"].result = Returned(TRUE)

(***************************************************************************)
(* C10                                                                     *)
(***************************************************************************)
\* C10 as claimed: for a hash string parsed to the MD5 variant, the salt is the 8
\* characters after the marker, the character after the salt is the '$'
\* separator, and the digest is everything after that separator.
C10Claim ==
  (pc = "parsed" /\ parsed.kind = "Ok" /\ parsed.hash.variant = "MD5") =>
    /\ parsed.hash.salt = SubSeq(hashIn, 7, 14)
    /\ hashIn[15] = "$"
    /\ parsed.hash.hash = SubSeq(hashIn, 16, Len(hashIn))

\* C10 as amended: for a hash string parsed to the MD5 variant (it has at least
\* 15 characters), the salt is the 8 characters after the marker and the digest
\* is everything after the one character that follows them, whatever that
\* character is.
C10Theorem ==
  (pc = "parsed" /\ parsed.kind = "Ok" /\ parsed.hash.variant = "MD5") =>
    /\ Len(hashIn) >= 15
    /\ parsed.hash.salt = SubSeq(hashIn, 7, 14)
    /\ parsed.hash.hash = SubSeq(hashIn, 16, Len(hashIn))

C10Witness ==
  /\ pc = "parsed"
  /\ parsed.kind = "Ok"
  /\ parsed.hash.variant = "MD5"
  /\ hashIn = Apr1ShortSalt
  /\ hashIn[15] # "$"
====
